---- MODULE Spec2Model ----
(***************************************************************************)
(* Model of difflex: the three content comparators (utils/comparator.py),  *)
(* the extension based file type detector (utils/file_types.py), the       *)
(* directory alignment and consecutive-pair dispatch of the worker thread  *)
(* (modules/comparison_worker.py), of the parallel directory widget        *)
(* (modules/parallel_comparison_widget.py) and of the file widget          *)
(* (modules/file_comparison_widget.py).                                    *)
(*                                                                         *)
(* Files are byte sequences.  Similarities are exact rationals             *)
(* [num, den] (the code computes them in binary floating point).           *)
(***************************************************************************)
EXTENDS Integers, Sequences, FiniteSets, TLC

\* ------------------------------------------------------------------------
\* Bounds of the model
\* ------------------------------------------------------------------------
MaxLen == 2          \* longest generic file content, in bytes
MaxW == 2            \* widest image, in pixels (all images are one row high)
MaxItems == 52       \* distinct comparisons started from the home tab
MaxReruns == 1       \* comparisons rerun from the history dialog

\* ------------------------------------------------------------------------
\* Generic helpers
\* ------------------------------------------------------------------------
None == "None"

Min(a, b) == IF a <= b THEN a ELSE b
Max(a, b) == IF a >= b THEN a ELSE b

SetMin(S) == CHOOSE x \in S : \A y \in S : x <= y

SeqsUpTo(S, n) == UNION {[1..k -> S] : k \in 0..n}

RECURSIVE SumSeq(_)
SumSeq(s) == IF s = <<>> THEN 0 ELSE Head(s) + SumSeq(Tail(s))

\* ------------------------------------------------------------------------
\* ComparisonResult
\* ------------------------------------------------------------------------
IDENTICAL == "="
SIMILAR == "~"
SIMILAR_EXIF == "~EX"
DIFFERENT == "!="

\* similarity is the rational num/den, den > 0
Rat(n, d) == [num |-> n, den |-> d]
\* a threshold test that excludes equality
RatGeq_Strict(r, t) == r.num > t * r.den

\* similarity >= similarity_threshold
RatGeq(r, t) == r.num >= t * r.den
RatEq(r, t) == r.num = t * r.den

\* a constructor that drops the similarity it is given
ComparisonResult_NoSimilarity(status, similarity, details) ==
    [status |-> status, similarity |-> Rat(0, 1), details |-> details]

ComparisonResult(status, similarity, details) ==
    [status |-> status, similarity |-> similarity, details |-> details]

\* f"{similarity:.1f}" as a number of tenths (round to nearest)
Tenths(r) == (2 * 10 * r.num + r.den) \div (2 * r.den)

\* an exception that escapes a comparator (never produced by the code as
\* written: every comparator body is wrapped in try/except Exception)
Raised(msg) == [status |-> "raised", similarity |-> Rat(0, 1), details |-> msg]

\* ------------------------------------------------------------------------
\* Files: what open() finds at a path
\* ------------------------------------------------------------------------
OkFile(d) == [st |-> "ok", data |-> d]
MissingFile == [st |-> "missing", data |-> <<>>]
UnreadableFile == [st |-> "unreadable", data |-> <<>>]

\* str(e) of the OSError raised by open()
OpenError(f) == IF f.st = "missing" THEN "No such file or directory"
                ELSE IF f.st = "dir" THEN "Is a directory"
                ELSE IF f.st = "none" THEN "expected str, bytes or os.PathLike object, not NoneType"
                ELSE "Permission denied"

\* ------------------------------------------------------------------------
\* TextComparator
\* ------------------------------------------------------------------------
LF == 10
CR == 13
SP == 32
LetterA == 97
ByteFF == 255

Whitespace == {9, 10, 11, 12, 13, 28, 29, 30, 31, 32, 133, 160}

Encodings == <<"utf-8", "utf-8-sig", "shift-jis", "cp932", "latin-1">>

\* bytes.decode(enc): ASCII decodes to itself in all five encodings; a
\* lone 0xFF is invalid in utf-8, utf-8-sig and shift-jis, is U+F8F3 in
\* cp932 and U+00FF in latin-1.
CanDecode(enc, data) ==
    \/ enc \in {"cp932", "latin-1"}
    \/ \A k \in 1..Len(data) : data[k] < 128

DecodeChar(enc, b) == IF b < 128 THEN b
                      ELSE IF enc = "cp932" THEN 63731
                      ELSE b

Decode(enc, data) == [k \in 1..Len(data) |-> DecodeChar(enc, data[k])]

\* text.replace('\r\n', '\n')
RECURSIVE ReplaceCRLF(_)
ReplaceCRLF(s) ==
    IF s = <<>> THEN <<>>
    ELSE IF Len(s) >= 2 /\ s[1] = CR /\ s[2] = LF
         THEN <<LF>> \o ReplaceCRLF(SubSeq(s, 3, Len(s)))
         ELSE <<Head(s)>> \o ReplaceCRLF(Tail(s))

\* text.replace('\r', '\n')
ReplaceCR(s) == [k \in 1..Len(s) |-> IF s[k] = CR THEN LF ELSE s[k]]

\* open(path, 'r', encoding=enc).read(): text mode with newline=None
\* translates '\r\n' and '\r' to '\n' after decoding
UniversalNewlines(s) == ReplaceCR(ReplaceCRLF(s))

\* str.split('\n')
RECURSIVE SplitLF(_)
SplitLF(s) ==
    LET at == {k \in 1..Len(s) : s[k] = LF}
    IN  IF at = {} THEN <<s>>
        ELSE LET k == SetMin(at)
             IN  <<SubSeq(s, 1, k - 1)>> \o SplitLF(SubSeq(s, k + 1, Len(s)))

\* str.rstrip()
RECURSIVE RStrip(_)
RStrip(s) == IF s # <<>> /\ s[Len(s)] \in Whitespace
             THEN RStrip(SubSeq(s, 1, Len(s) - 1))
             ELSE s

\* '\n'.join(lines)
RECURSIVE JoinLF(_)
JoinLF(lines) ==
    IF Len(lines) = 0 THEN <<>>
    ELSE IF Len(lines) = 1 THEN lines[1]
    ELSE lines[1] \o <<LF>> \o JoinLF(Tail(lines))

normalize_text(text) ==
    LET lines == SplitLF(ReplaceCR(ReplaceCRLF(text)))
        stripped == [k \in 1..Len(lines) |-> RStrip(lines[k])]
    IN  JoinLF(stripped)

\* the for/else loop over the encodings, for one file
ReadText(f) ==
    IF f.st # "ok" THEN [exc |-> OpenError(f), decoded |-> FALSE, text |-> <<>>]
    ELSE LET ok == {k \in 1..Len(Encodings) : CanDecode(Encodings[k], f.data)}
         IN  IF ok = {} THEN [exc |-> None, decoded |-> FALSE, text |-> <<>>]
             ELSE [exc |-> None, decoded |-> TRUE,
                   text |-> UniversalNewlines(Decode(Encodings[SetMin(ok)], f.data))]

\* difflib.SequenceMatcher.find_longest_match on a[alo..ahi-1], b[blo..bhi-1]
\* (1-based, half-open): the longest common block, of those the one that
\* starts earliest in a, of those the one that starts earliest in b
FindLongestMatch(a, b, alo, ahi, blo, bhi) ==
    LET blocks == {m \in (alo..(ahi - 1)) \X (blo..(bhi - 1)) \X (1..Min(ahi - alo, bhi - blo)) :
                      /\ m[1] + m[3] <= ahi
                      /\ m[2] + m[3] <= bhi
                      /\ \A d \in 0..(m[3] - 1) : a[m[1] + d] = b[m[2] + d]}
    IN  IF blocks = {} THEN <<alo, blo, 0>>
        ELSE CHOOSE m \in blocks :
                \A o \in blocks :
                    \/ m[3] > o[3]
                    \/ m[3] = o[3] /\ m[1] < o[1]
                    \/ m[3] = o[3] /\ m[1] = o[1] /\ m[2] <= o[2]

\* sum of the sizes of SequenceMatcher.get_matching_blocks()
RECURSIVE MatchingSize(_, _, _, _, _, _)
MatchingSize(a, b, alo, ahi, blo, bhi) ==
    LET m == FindLongestMatch(a, b, alo, ahi, blo, bhi)
    IN  IF m[3] = 0 THEN 0
        ELSE m[3]
             + (IF alo < m[1] /\ blo < m[2]
                THEN MatchingSize(a, b, alo, m[1], blo, m[2]) ELSE 0)
             + (IF m[1] + m[3] < ahi /\ m[2] + m[3] < bhi
                THEN MatchingSize(a, b, m[1] + m[3], ahi, m[2] + m[3], bhi) ELSE 0)

\* SequenceMatcher(None, a, b).ratio() * 100
RatioPercent(a, b) ==
    IF Len(a) + Len(b) = 0 THEN Rat(100, 1)
    ELSE Rat(2 * MatchingSize(a, b, 1, Len(a) + 1, 1, Len(b) + 1) * 100, Len(a) + Len(b))

\* the comparator without its comparison of the normalized texts
TextCompareBody_NoNormCheck(file1, file2, similarity_threshold) ==
    LET r1 == ReadText(file1)
        r2 == ReadText(file2)
    IN  IF r1.exc # None THEN Raised(r1.exc)
        ELSE IF ~r1.decoded THEN ComparisonResult(DIFFERENT, Rat(0, 1), "Cannot decode file1")
        ELSE IF r2.exc # None THEN Raised(r2.exc)
        ELSE IF ~r2.decoded THEN ComparisonResult(DIFFERENT, Rat(0, 1), "Cannot decode file2")
        ELSE IF r1.text = r2.text THEN ComparisonResult(IDENTICAL, Rat(100, 1), "")
        ELSE LET norm1 == normalize_text(r1.text)
                 norm2 == normalize_text(r2.text)
                 similarity == RatioPercent(norm1, norm2)
             IN  IF RatGeq(similarity, similarity_threshold)
                 THEN ComparisonResult(SIMILAR, similarity, "Content mostly similar")
                 ELSE ComparisonResult(DIFFERENT, similarity, "Content differs significantly")

\* the body of TextComparator.compare inside the try block
TextCompareBody(file1, file2, similarity_threshold) ==
    LET r1 == ReadText(file1)
        r2 == ReadText(file2)
    IN  IF r1.exc # None THEN Raised(r1.exc)
        ELSE IF ~r1.decoded THEN ComparisonResult(DIFFERENT, Rat(0, 1), "Cannot decode file1")
        ELSE IF r2.exc # None THEN Raised(r2.exc)
        ELSE IF ~r2.decoded THEN ComparisonResult(DIFFERENT, Rat(0, 1), "Cannot decode file2")
        ELSE IF r1.text = r2.text THEN ComparisonResult(IDENTICAL, Rat(100, 1), "")
        ELSE LET norm1 == normalize_text(r1.text)
                 norm2 == normalize_text(r2.text)
             IN  IF norm1 = norm2
                 THEN ComparisonResult(SIMILAR, Rat(100, 1), "Whitespace/newline differences only")
                 ELSE LET similarity == RatioPercent(norm1, norm2)
                      IN  IF RatGeq(similarity, similarity_threshold)
                          THEN ComparisonResult(SIMILAR, similarity, "Content mostly similar")
                          ELSE ComparisonResult(DIFFERENT, similarity, "Content differs significantly")

\* except Exception as e: return ComparisonResult(DIFFERENT, 0.0, f"Error: {e}")
ErrorDetails(msg) ==
    CASE msg = "No such file or directory" -> "Error: No such file or directory"
      [] msg = "Permission denied" -> "Error: Permission denied"
      [] msg = "Is a directory" -> "Error: Is a directory"
      [] msg = "expected str, bytes or os.PathLike object, not NoneType" ->
             "Error: expected str, bytes or os.PathLike object, not NoneType"
      [] msg = "cannot identify image file" -> "Error: cannot identify image file"
      [] msg = "image file is truncated" -> "Error: image file is truncated"
      [] OTHER -> "Error: "

\* the comparator without its except clause
Recover_Propagate(r) == r

Recover(r) == IF r.status = "raised"
              THEN ComparisonResult(DIFFERENT, Rat(0, 1), ErrorDetails(r.details))
              ELSE r

TextCompare(file1, file2, similarity_threshold) ==
    Recover(TextCompareBody(file1, file2, similarity_threshold))

\* ------------------------------------------------------------------------
\* ImageComparator
\* ------------------------------------------------------------------------
\* Image files are modelled in a container format standing for the formats
\* PIL decodes: <<Magic, metadata byte, width, channels, pixel bytes...>>,
\* one row high, channels 1 (mode "L") or 3 (mode "RGB").
Magic == 137

EncodeImage(meta, w, ch, px) == <<Magic, meta, w, ch>> \o px

\* Image.open(path): identifies the file from its header, lazily
Identifiable(data) ==
    /\ Len(data) >= 4
    /\ data[1] = Magic
    /\ data[3] >= 1
    /\ data[4] \in {1, 3}

ImgSize(data) == <<data[3], 1>>
ImgMode(data) == IF data[4] = 1 THEN "L" ELSE "RGB"

\* img.load(), run by convert() and np.array(): needs every pixel byte
Loadable(data) == Len(data) = 4 + data[3] * data[4]

Pixels(data) == SubSeq(data, 5, Len(data))

\* ImagingConvert RGB -> L: (r*19595 + g*38470 + b*7471 + 0x8000) >> 16
Luma(r, g, b) == (r * 19595 + g * 38470 + b * 7471 + 32768) \div 65536

\* np.array(img.convert(mode)) for the pixels px of an image of mode from
ConvertPixels(px, from, mode) ==
    IF from = mode THEN px
    ELSE IF mode = "RGB"
         THEN [k \in 1..(3 * Len(px)) |-> px[(k + 2) \div 3]]
         ELSE [k \in 1..(Len(px) \div 3) |->
                  Luma(px[3 * k - 2], px[3 * k - 1], px[3 * k])]

AbsDiff(x, y) == IF x >= y THEN x - y ELSE y - x

\* 100.0 - (np.mean(np.abs(arr1 - arr2)) / 255.0 * 100.0)
PixelSimilarity(arr1, arr2) ==
    LET total == SumSeq([k \in 1..Len(arr1) |-> AbsDiff(arr1[k], arr2[k])])
    IN  Rat(100 * (255 * Len(arr1) - total), 255 * Len(arr1))

\* a size check that scores the mismatch as similarity 0 against the threshold
DifferentDimensions_Scored(similarity_threshold) ==
    IF RatGeq(Rat(0, 1), similarity_threshold)
    THEN ComparisonResult(SIMILAR, Rat(0, 1), "Different dimensions")
    ELSE ComparisonResult(DIFFERENT, Rat(0, 1), "Different dimensions")

\* if img1.size != img2.size: return Different, 0.0; the threshold is not read
DifferentDimensions(similarity_threshold) ==
    ComparisonResult(DIFFERENT, Rat(0, 1), "Different dimensions")

\* the scoring of the pixel arrays without the np.array_equal test
PixelVerdict_NoEqualCheck(arr1, arr2, similarity_threshold) ==
    LET similarity == PixelSimilarity(arr1, arr2)
    IN  IF RatGeq(similarity, similarity_threshold)
        THEN ComparisonResult(SIMILAR, similarity, "Pixels mostly similar")
        ELSE ComparisonResult(DIFFERENT, similarity, "Pixels differ significantly")

\* lines 160-172: np.array_equal, then the pixel difference and the threshold
PixelVerdict(arr1, arr2, similarity_threshold) ==
    IF arr1 = arr2
    THEN ComparisonResult(SIMILAR_EXIF, Rat(100, 1), "Pixel data identical, metadata differs")
    ELSE LET similarity == PixelSimilarity(arr1, arr2)
         IN  IF RatGeq(similarity, similarity_threshold)
             THEN ComparisonResult(SIMILAR, similarity, "Pixels mostly similar")
             ELSE ComparisonResult(DIFFERENT, similarity, "Pixels differ significantly")

\* ImageComparator.compare without the byte comparison of lines 141-142
ImageCompareBody_NoFastPath(file1, file2, similarity_threshold) ==
    IF file1.st # "ok" THEN Raised(OpenError(file1))
    ELSE IF file2.st # "ok" THEN Raised(OpenError(file2))
    ELSE IF ~Identifiable(file1.data) \/ ~Identifiable(file2.data)
         THEN Raised("cannot identify image file")
    ELSE IF ImgSize(file1.data) # ImgSize(file2.data)
         THEN DifferentDimensions(similarity_threshold)
    ELSE IF ~Loadable(file1.data) \/ ~Loadable(file2.data)
         THEN Raised("image file is truncated")
    ELSE PixelVerdict(Pixels(file1.data),
                      ConvertPixels(Pixels(file2.data), ImgMode(file2.data), ImgMode(file1.data)),
                      similarity_threshold)

\* the body of ImageComparator.compare inside the try block
ImageCompareBody(file1, file2, similarity_threshold) ==
    IF file1.st # "ok" THEN Raised(OpenError(file1))
    ELSE IF file2.st # "ok" THEN Raised(OpenError(file2))
    ELSE IF file1.data = file2.data THEN ComparisonResult(IDENTICAL, Rat(100, 1), "")
    ELSE IF ~Identifiable(file1.data) \/ ~Identifiable(file2.data)
         THEN Raised("cannot identify image file")
    ELSE IF ImgSize(file1.data) # ImgSize(file2.data)
         THEN DifferentDimensions(similarity_threshold)
    ELSE IF ~Loadable(file1.data) \/ ~Loadable(file2.data)
         THEN Raised("image file is truncated")
    ELSE PixelVerdict(Pixels(file1.data),
                      ConvertPixels(Pixels(file2.data), ImgMode(file2.data), ImgMode(file1.data)),
                      similarity_threshold)

ImageCompare(file1, file2, similarity_threshold) ==
    Recover(ImageCompareBody(file1, file2, similarity_threshold))

\* ------------------------------------------------------------------------
\* BinaryComparator
\* ------------------------------------------------------------------------
\* the count over range(min_len - 1)
MatchingBytes_OffByOne(data1, data2, n) ==
    Cardinality({k \in 1..(n - 1) : data1[k] = data2[k]})

\* sum(1 for i in range(min_len) if data1[i] == data2[i])
RECURSIVE MatchingBytes(_, _, _)
MatchingBytes(data1, data2, n) ==
    IF n = 0 THEN 0
    ELSE MatchingBytes(data1, data2, n - 1) + (IF data1[n] = data2[n] THEN 1 ELSE 0)

\* a score that falls as the number of matching bytes grows
BinarySimilarity_Inverted(matching_bytes, max_len) ==
    Rat((max_len - matching_bytes) * 100, max_len)

\* similarity = (matching_bytes / max_len) * 100.0
BinarySimilarity(matching_bytes, max_len) == Rat(matching_bytes * 100, max_len)

\* BinaryComparator.compare without the empty-file check of lines 210-211
BinaryCompareBody_NoEmptyCheck(file1, file2, similarity_threshold) ==
    IF file1.st # "ok" THEN Raised(OpenError(file1))
    ELSE IF file2.st # "ok" THEN Raised(OpenError(file2))
    ELSE LET data1 == file1.data
             data2 == file2.data
             len1 == Len(data1)
             len2 == Len(data2)
         IN  IF data1 = data2 THEN ComparisonResult(IDENTICAL, Rat(100, 1), "")
             ELSE IF len1 = 0 /\ len2 = 0 THEN ComparisonResult(IDENTICAL, Rat(100, 1), "")
             ELSE LET min_len == Min(len1, len2)
                      matching_bytes == Cardinality({k \in 1..min_len : data1[k] = data2[k]})
                      max_len == Max(len1, len2)
                      similarity == BinarySimilarity(matching_bytes, max_len)
                  IN  IF RatGeq(similarity, similarity_threshold)
                      THEN ComparisonResult(SIMILAR, similarity, "Binary data mostly similar")
                      ELSE ComparisonResult(DIFFERENT, similarity, "Binary data differs")

\* the comparator without its test for equal contents
BinaryCompareBody_NoEqualCheck(file1, file2, similarity_threshold) ==
    IF file1.st # "ok" THEN Raised(OpenError(file1))
    ELSE IF file2.st # "ok" THEN Raised(OpenError(file2))
    ELSE LET data1 == file1.data
             data2 == file2.data
             len1 == Len(data1)
             len2 == Len(data2)
         IN  IF len1 = 0 /\ len2 = 0 THEN ComparisonResult(IDENTICAL, Rat(100, 1), "")
             ELSE IF len1 = 0 \/ len2 = 0
                  THEN ComparisonResult(DIFFERENT, Rat(0, 1), "One file is empty")
             ELSE LET min_len == Min(len1, len2)
                      matching_bytes == MatchingBytes(data1, data2, min_len)
                      max_len == Max(len1, len2)
                      similarity == BinarySimilarity(matching_bytes, max_len)
                  IN  IF RatGeq(similarity, similarity_threshold)
                      THEN ComparisonResult(SIMILAR, similarity, "Binary data mostly similar")
                      ELSE ComparisonResult(DIFFERENT, similarity, "Binary data differs")

\* the body of BinaryComparator.compare inside the try block
BinaryCompareBody(file1, file2, similarity_threshold) ==
    IF file1.st # "ok" THEN Raised(OpenError(file1))
    ELSE IF file2.st # "ok" THEN Raised(OpenError(file2))
    ELSE LET data1 == file1.data
             data2 == file2.data
             len1 == Len(data1)
             len2 == Len(data2)
         IN  IF data1 = data2 THEN ComparisonResult(IDENTICAL, Rat(100, 1), "")
             ELSE IF len1 = 0 /\ len2 = 0 THEN ComparisonResult(IDENTICAL, Rat(100, 1), "")
             ELSE IF len1 = 0 \/ len2 = 0
                  THEN ComparisonResult(DIFFERENT, Rat(0, 1), "One file is empty")
             ELSE LET min_len == Min(len1, len2)
                      matching_bytes == MatchingBytes(data1, data2, min_len)
                      max_len == Max(len1, len2)
                      similarity == BinarySimilarity(matching_bytes, max_len)
                  IN  IF RatGeq(similarity, similarity_threshold)
                      THEN ComparisonResult(SIMILAR, similarity, "Binary data mostly similar")
                      ELSE ComparisonResult(DIFFERENT, similarity, "Binary data differs")

BinaryCompare(file1, file2, similarity_threshold) ==
    Recover(BinaryCompareBody(file1, file2, similarity_threshold))

\* ------------------------------------------------------------------------
\* FileTypeDetector
\* ------------------------------------------------------------------------
TEXT == "text"
IMAGE == "image"
BINARY == "binary"

\* Paths and names are sequences of character codes ("a.c" is
\* <<97, 46, 99>>); str order is the lexicographic order of the codes.
Dot == 46
Slash == 47

\* the default sets of FileTypeDetector.__init__
DefaultTextExtensions ==
    {<<116, 120, 116>>, <<112, 121>>, <<106, 97, 118, 97>>, <<99>>,
     <<99, 112, 112>>, <<104>>, <<104, 112, 112>>, <<99, 115>>,
     <<106, 115>>, <<116, 115>>, <<104, 116, 109, 108>>, <<99, 115, 115>>,
     <<120, 109, 108>>, <<106, 115, 111, 110>>, <<121, 97, 109, 108>>,
     <<121, 109, 108>>, <<109, 100>>, <<114, 115, 116>>, <<105, 110, 105>>,
     <<99, 102, 103>>, <<99, 111, 110, 102>>, <<108, 111, 103>>,
     <<115, 104>>, <<98, 97, 115, 104>>, <<122, 115, 104>>,
     <<112, 115, 49>>, <<98, 97, 116>>, <<99, 109, 100>>}

DefaultImageExtensions ==
    {<<106, 112, 103>>, <<106, 112, 101, 103>>, <<112, 110, 103>>,
     <<103, 105, 102>>, <<98, 109, 112>>, <<116, 105, 102, 102>>,
     <<116, 105, 102>>, <<119, 101, 98, 112>>, <<105, 99, 111>>,
     <<115, 118, 103>>}

\* text_extensions or {...}: an empty (falsy) set selects the default too
FileTypeDetectorInit(text_exts, image_exts) ==
    [text_extensions |-> IF text_exts = {} THEN DefaultTextExtensions ELSE text_exts,
     image_extensions |-> IF image_exts = {} THEN DefaultImageExtensions ELSE image_exts]

\* PurePath.suffix: name[i:] for the last dot at i, if 0 < i < len(name) - 1
Suffix(name) ==
    LET dots == {k \in 1..Len(name) : name[k] = Dot}
    IN  IF dots = {} THEN <<>>
        ELSE LET i == CHOOSE k \in dots : \A j \in dots : j <= k
             IN  IF 1 < i /\ i < Len(name) THEN SubSeq(name, i, Len(name)) ELSE <<>>

\* a detector that does not fold case
Lower_Unchanged(s) == s

\* str.lower()
Lower(s) == [k \in 1..Len(s) |-> IF s[k] >= 65 /\ s[k] <= 90 THEN s[k] + 32 ELSE s[k]]

\* str.lstrip('.')
RECURSIVE LStripDots(_)
LStripDots(s) == IF s # <<>> /\ s[1] = Dot THEN LStripDots(Tail(s)) ELSE s

\* FileTypeDetector.detect, for the final component name of the path
Detect(det, name) ==
    LET ext == LStripDots(Lower(Suffix(name)))
    IN  IF ext \in det.text_extensions THEN TEXT
        ELSE IF ext \in det.image_extensions THEN IMAGE
        ELSE BINARY

\* ------------------------------------------------------------------------
\* Settings defaults
\* ------------------------------------------------------------------------
DefaultTextThreshold == 95
DefaultImageThreshold == 99
DefaultBinaryThreshold == 100

\* ------------------------------------------------------------------------
\* State
\* ------------------------------------------------------------------------
VARIABLES
    mode,          \* the component driven: "cmp", "file", "worker", "widget", "detect", "history"
    \* one comparator call
    kind,          \* the comparator called: TEXT, IMAGE or BINARY
    file1, file2,  \* what is found at the two paths
    threshold,     \* similarity_threshold
    outcome,       \* the ComparisonResult returned
    \* the file system and the configuration handed to the engine
    nroots,        \* number of paths given: 2 or 3
    fs,            \* fs[i][p]: "none", "file" or "dir" for relative path p under root i
    rootOk,        \* rootOk[i]: root i can be enumerated
    detector,      \* the FileTypeDetector
    \* DirectoryComparisonWorker
    wpc,           \* position of run()
    should_stop,   \* _should_stop
    all_files,     \* the list returned by _collect_files
    idx,           \* loop index of run()
    emitted,       \* the signals emitted so far, in order
    \* ParallelComparisonWidget
    gpc,           \* "new" before _scan_directories, then "scanned"
    items_map,     \* items_map: relative path string -> the items of the row
    pending,       \* the paths_to_compare that _start_comparison has not reached yet
    stop_requested, \* the stop button was pressed during _start_comparison
    trees,         \* self.trees: per directory tree, the items in creation order
    result_trees,  \* self.result_trees: per result tree, the items in creation order
    \* FileComparisonWidget
    fpaths,        \* self.paths: the name and the file at each path
    fresults,      \* the results of the N-1 pairs
    fpc,
    fwidget,       \* the widget class showing the files
    \* one FileTypeDetector.detect call
    dpath,         \* the path given, as a string
    category,      \* the FileType returned
    given,         \* the sets <<T, I>> handed to FileTypeDetector(T, I) for that call
    updated,       \* a second detector: FileTypeDetector() and then the update_ methods
    updates,       \* which update_ methods were called on it
    \* Settings: the comparison history
    history,       \* the stored value of "comparison_history": the JSON text, as json.dumps lays it out
    started,       \* number of distinct comparisons started so far
    reruns,        \* number of comparisons rerun from the history dialog so far
    \* every comparator call made by a dispatcher
    calls

cmpVars == <<kind, file1, file2, threshold, outcome>>
envVars == <<nroots, fs, rootOk, detector>>
workerVars == <<wpc, should_stop, all_files, idx, emitted>>
widgetVars == <<gpc, items_map, pending, stop_requested, trees, result_trees>>
fileVars == <<fpaths, fresults, fpc, fwidget>>
detVars == <<dpath, category, given, updated, updates>>
histVars == <<history, started, reruns>>
vars == <<mode, cmpVars, envVars, workerVars, widgetVars, fileVars, detVars, histVars, calls>>

\* ------------------------------------------------------------------------
\* Inputs of a single comparator call
\* ------------------------------------------------------------------------
TextBytes == {LF, CR, SP, LetterA, ByteFF}

\* "hello\n", "hello\r\n", "hello \n" and the bytes 01 02 03, 01 02 04
HelloLF == <<104, 101, 108, 108, 111, 10>>
HelloCRLF == <<104, 101, 108, 108, 111, 13, 10>>
HelloSpLF == <<104, 101, 108, 108, 111, 32, 10>>
Bin123 == <<1, 2, 3>>
Bin124 == <<1, 2, 4>>

Contents == SeqsUpTo(TextBytes, MaxLen) \cup {HelloLF, HelloCRLF, HelloSpLF, Bin123, Bin124}

\* pixel values: grey levels, and the colours black, white and red
GreyLevels == {0, 255}
Colours == {<<0, 0, 0>>, <<255, 255, 255>>, <<255, 0, 0>>}

RECURSIVE Flatten(_)
Flatten(ss) == IF ss = <<>> THEN <<>> ELSE Head(ss) \o Flatten(Tail(ss))

ImageContents ==
    {EncodeImage(m, w, 1, px) : m \in {0, 1}, w \in 1..MaxW, px \in UNION {[1..k -> GreyLevels] : k \in 1..MaxW}}
    \cup {EncodeImage(m, w, 3, Flatten(px)) : m \in {0, 1}, w \in 1..MaxW, px \in UNION {[1..k -> Colours] : k \in 1..MaxW}}

\* well-formed image files, one truncated file, two unidentifiable files
ImageFiles ==
    {d \in ImageContents : Loadable(d)}
    \cup {<<Magic, 0, 1, 1>>, <<0>>, <<LetterA>>}

Thresholds == {0, 50, 100}

FilesOf(k) ==
    {MissingFile, UnreadableFile}
    \cup {OkFile(d) : d \in IF k = IMAGE THEN ImageFiles ELSE Contents}

Compare(k, f1, f2, t) ==
    IF k = TEXT THEN TextCompare(f1, f2, t)
    ELSE IF k = IMAGE THEN ImageCompare(f1, f2, t)
    ELSE BinaryCompare(f1, f2, t)

NoResult == ComparisonResult(None, Rat(0, 1), "")

\* ------------------------------------------------------------------------
\* The directory roots
\* ------------------------------------------------------------------------
\* the names "d", "d.c" and "b.png"
NameD == <<100>>
NameDC == <<100, 46, 99>>
NameB == <<98, 46, 112, 110, 103>>

\* relative paths: "d", "d.c" and "d/b.png"
RelPaths == {<<NameD>>, <<NameDC>>, <<NameD, NameB>>}

\* str(rel_path)
RECURSIVE PathStr(_)
PathStr(p) ==
    IF Len(p) = 0 THEN <<Dot>>
    ELSE IF Len(p) = 1 THEN p[1]
    ELSE p[1] \o <<Slash>> \o PathStr(Tail(p))

Parent(p) == SubSeq(p, 1, Len(p) - 1)

\* what one root may contain: "d" is absent, a file, or a directory that
\* may hold the file "b.png"; "d.c" is absent or a file
EmptyTree == [p \in RelPaths |-> "none"]

Trees ==
    {t \in [RelPaths -> {"none", "file", "dir"}] :
        /\ t[<<NameDC>>] # "dir"
        /\ t[<<NameD, NameB>>] # "dir"
        /\ t[<<NameD, NameB>>] = "file" => t[<<NameD>>] = "dir"}

Roots == 1..nroots

NoPath == <<>>
AbsPath(i, p) == <<i, p>>

\* Path.is_dir() and Path.exists(); gone is the file that vanished since
\* the directories were walked (NoPath if none did)
IsDir(path) == fs[path[1]][path[2]] = "dir"
Exists(path, gone) == fs[path[1]][path[2]] # "none" /\ path # gone

\* the bytes of the files under root i
ContentOf(i) == IF i = 3 THEN <<LetterA, SP>> ELSE <<LetterA>>

DirFile == [st |-> "dir", data |-> <<>>]
NoneFile == [st |-> "none", data |-> <<>>]

\* what open(path) finds when the comparison runs
FileAt(path, gone) ==
    IF path = NoPath THEN NoneFile
    ELSE IF ~Exists(path, gone) THEN MissingFile
    ELSE IF IsDir(path) THEN DirFile
    ELSE OkFile(ContentOf(path[1]))

\* str < str
RECURSIVE StrLess(_, _)
StrLess(s, t) ==
    IF t = <<>> THEN FALSE
    ELSE IF s = <<>> THEN TRUE
    ELSE IF Head(s) # Head(t) THEN Head(s) < Head(t)
    ELSE StrLess(Tail(s), Tail(t))

\* sorted(keys)
RECURSIVE Sorted(_)
Sorted(S) ==
    IF S = {} THEN <<>>
    ELSE LET m == CHOOSE x \in S : \A y \in S \ {x} : StrLess(x, y)
         IN  <<m>> \o Sorted(S \ {m})

\* a walk that lists the top directory only
WalkFrom_TopOnly(i, root) ==
    {<<root, {p \in RelPaths : Len(p) = Len(root) + 1 /\ Parent(p) = root /\ fs[i][p] = "file"}>>}

\* os.walk(directory) / directory.walk(): one <<rel_root, files>> per
\* directory reached; a root that cannot be listed yields nothing (the
\* scandir error is swallowed since no onerror handler is given)
RECURSIVE WalkFrom(_, _)
WalkFrom(i, root) ==
    LET children == {p \in RelPaths : Len(p) = Len(root) + 1 /\ Parent(p) = root}
    IN  {<<root, {p \in children : fs[i][p] = "file"}>>}
        \cup UNION {WalkFrom(i, p) : p \in {c \in children : fs[i][c] = "dir"}}

Walk(i) == IF rootOk[i] THEN WalkFrom(i, <<>>) ELSE {}

\* ------------------------------------------------------------------------
\* DirectoryComparisonWorker
\* ------------------------------------------------------------------------
\* a file_map whose new rows are filled with the path instead of None
WorkerFileMap_AllSlots ==
    LET keys == UNION {UNION {step[2] : step \in Walk(i)} : i \in Roots}
    IN  [p \in keys |-> [i \in Roots |-> AbsPath(i, p)]]

\* the file_map of _collect_files: relative path -> slot per directory
WorkerFileMap ==
    LET found(i) == UNION {step[2] : step \in Walk(i)}
        keys == UNION {found(i) : i \in Roots}
    IN  [p \in keys |-> [i \in Roots |-> IF p \in found(i) THEN AbsPath(i, p) ELSE NoPath]]

\* file type from the first available file
FirstFileType(paths) ==
    LET present == {i \in 1..Len(paths) : paths[i] # NoPath}
    IN  IF present = {} THEN BINARY
        ELSE LET path == paths[SetMin(present)]
             IN  Detect(detector, path[2][Len(path[2])])

FileComparisonItem(name, paths, file_type) ==
    [name |-> name, paths |-> paths, file_type |-> file_type, results |-> <<>>]

\* _collect_files building the items in descending order of the keys
CollectFiles_Descending ==
    LET file_map == WorkerFileMap
        sorted == Sorted({PathStr(p) : p \in DOMAIN file_map})
        names == [k \in 1..Len(sorted) |-> sorted[Len(sorted) + 1 - k]]
        pathOf(n) == CHOOSE p \in DOMAIN file_map : PathStr(p) = n
    IN  [k \in 1..Len(names) |->
            FileComparisonItem(names[k], file_map[pathOf(names[k])],
                               FirstFileType(file_map[pathOf(names[k])]))]

\* _collect_files
CollectFiles ==
    LET file_map == WorkerFileMap
        \* file_map.items(): the pairs (rel_path, paths)
        items == {<<PathStr(p), file_map[p]>> : p \in DOMAIN file_map}
        names == Sorted({it[1] : it \in items})
    IN  [k \in 1..Len(names) |->
            CHOOSE item \in {FileComparisonItem(it[1], it[2], FirstFileType(it[2])) : it \in items} :
                item.name = names[k]]

\* _compare_files
CompareFiles(f1, f2, file_type) ==
    IF file_type = TEXT THEN TextCompare(f1, f2, DefaultTextThreshold)
    ELSE IF file_type = IMAGE THEN ImageCompare(f1, f2, DefaultImageThreshold)
    ELSE BinaryCompare(f1, f2, DefaultBinaryThreshold)

\* every pair of paths instead of the consecutive ones
AllPairs(n) ==
    IF n = 3 THEN <<(<<1, 2>>), (<<2, 3>>), (<<1, 3>>)>> ELSE [i \in 1..(n - 1) |-> <<i, i + 1>>]

\* for i in range(len(paths) - 1): path1 = paths[i]; path2 = paths[i + 1]
ConsecutivePairs(n) == [i \in 1..(n - 1) |-> <<i, i + 1>>]

\* _compare_item testing path1 only
ComparedPairs_LeftOnly(paths) ==
    {k \in 1..(Len(paths) - 1) : paths[k] # NoPath}

\* the iterations of _compare_item that reach _compare_files
ComparedPairs(paths) ==
    LET pairs == ConsecutivePairs(Len(paths))
    IN  {k \in 1..Len(pairs) : paths[pairs[k][1]] # NoPath /\ paths[pairs[k][2]] # NoPath}

\* _compare_item
CompareItem(item, gone) ==
    LET pairs == ConsecutivePairs(Len(item.paths))
    IN  [k \in 1..Len(pairs) |->
            IF k \in ComparedPairs(item.paths)
            THEN CompareFiles(FileAt(item.paths[pairs[k][1]], gone),
                              FileAt(item.paths[pairs[k][2]], gone), item.file_type)
            ELSE NoResult]

Call(by, name, i, j, cmp) == [by |-> by, name |-> name, left |-> i, right |-> j, cmp |-> cmp]

\* the comparator calls made by _compare_item
ItemCalls(item) ==
    LET pairs == ConsecutivePairs(Len(item.paths))
    IN  {Call("worker", item.name, pairs[k][1], pairs[k][2], item.file_type) :
            k \in ComparedPairs(item.paths)}

Event(sig, current, total, name, results) ==
    [sig |-> sig, current |-> current, total |-> total, name |-> name, results |-> results]

\* the locations of an entry that are files on disk
SlotsOf(paths) == {paths[i] : i \in 1..Len(paths)} \ {NoPath}

\* run(), lines 76-79: collect, then progress(0, total)
WorkerCollect ==
    /\ mode = "worker" /\ wpc = "collect"
    /\ all_files' = CollectFiles
    /\ emitted' = Append(emitted, Event("progress", 0, Len(CollectFiles), <<>>, <<>>))
    /\ idx' = 0
    /\ wpc' = "loop"
    /\ UNCHANGED <<mode, histVars, detVars, cmpVars, envVars, should_stop, widgetVars, fileVars, calls>>

\* a loop that ends only when the entries are exhausted
LoopEnds_IgnoresStop == idx >= Len(all_files)

\* lines 82-84: the for loop is exhausted, or _should_stop breaks it
LoopEnds == idx >= Len(all_files) \/ should_stop

\* a loop head that announces the entry without a progress update
WorkerNext_NoProgress ==
    /\ mode = "worker" /\ wpc = "loop"
    /\ IF LoopEnds
       THEN /\ wpc' = "after"
            /\ UNCHANGED emitted
       ELSE /\ wpc' = "compare"
            /\ emitted' = Append(emitted,
                   Event("file_found", idx, Len(all_files), all_files[idx + 1].name, <<>>))
    /\ UNCHANGED <<mode, histVars, detVars, cmpVars, envVars, should_stop, all_files, idx, widgetVars, fileVars, calls>>

\* run(), lines 82-87: the loop head, the stop check, progress and file_found
WorkerNext ==
    /\ mode = "worker" /\ wpc = "loop"
    /\ IF LoopEnds
       THEN /\ wpc' = "after"
            /\ UNCHANGED emitted
       ELSE /\ wpc' = "compare"
            /\ emitted' = emitted \o
                 <<Event("progress", idx, Len(all_files), all_files[idx + 1].name, <<>>),
                   Event("file_found", idx, Len(all_files), all_files[idx + 1].name, <<>>)>>
    /\ UNCHANGED <<mode, histVars, detVars, cmpVars, envVars, should_stop, all_files, idx, widgetVars, fileVars, calls>>

\* run(), lines 90-92: compare the entry and emit comparison_complete; an
\* exception leaving _compare_item skips to the finally clause
WorkerCompare ==
    /\ mode = "worker" /\ wpc = "compare"
    /\ LET item == all_files[idx + 1]
       IN  \E gone \in {NoPath} \cup SlotsOf(item.paths) :
             LET results == CompareItem(item, gone)
                 failed == \E i \in 1..Len(results) : results[i].status = "raised"
             IN  /\ calls' = calls \cup ItemCalls(item)
                 /\ IF failed
                    THEN /\ wpc' = "finally"
                         /\ UNCHANGED <<all_files, idx, emitted>>
                    ELSE /\ all_files' = [all_files EXCEPT ![idx + 1].results = results]
                         /\ emitted' = Append(emitted,
                               Event("comparison_complete", idx, Len(all_files), item.name, results))
                         /\ idx' = idx + 1
                         /\ wpc' = "loop"
    /\ UNCHANGED <<mode, histVars, detVars, cmpVars, envVars, should_stop, widgetVars, fileVars>>

\* run(), line 94: progress(total, total)
WorkerAfterLoop ==
    /\ mode = "worker" /\ wpc = "after"
    /\ emitted' = Append(emitted, Event("progress", Len(all_files), Len(all_files), <<>>, <<>>))
    /\ wpc' = "finally"
    /\ UNCHANGED <<mode, histVars, detVars, cmpVars, envVars, should_stop, all_files, idx, widgetVars, fileVars, calls>>

\* run(), lines 96-97: finally: finished
WorkerFinally ==
    /\ mode = "worker" /\ wpc = "finally"
    /\ emitted' = Append(emitted, Event("finished", 0, 0, <<>>, <<>>))
    /\ wpc' = "done"
    /\ UNCHANGED <<mode, histVars, detVars, cmpVars, envVars, should_stop, all_files, idx, widgetVars, fileVars, calls>>

\* stop(), called from the GUI thread while the worker runs
WorkerStop ==
    /\ mode = "worker" /\ wpc # "done" /\ ~should_stop
    /\ should_stop' = TRUE
    /\ UNCHANGED <<mode, histVars, detVars, cmpVars, envVars, wpc, all_files, idx, emitted, widgetVars, fileVars, calls>>

\* an exception that leaves run() without running its finally clause
WorkerRaise_SkipsFinally ==
    /\ mode = "worker" /\ wpc \in {"collect", "loop", "compare", "after"}
    /\ wpc' = "done"
    /\ UNCHANGED <<mode, histVars, detVars, cmpVars, envVars, should_stop, all_files, idx, emitted, widgetVars, fileVars, calls>>

\* run(), lines 74-97: an exception raised anywhere in the try block passes
\* control to the finally clause
WorkerRaise ==
    /\ mode = "worker" /\ wpc \in {"collect", "loop", "compare", "after"}
    /\ wpc' = "finally"
    /\ UNCHANGED <<mode, histVars, detVars, cmpVars, envVars, should_stop, all_files, idx, emitted, widgetVars, fileVars, calls>>

\* ------------------------------------------------------------------------
\* ParallelComparisonWidget
\* ------------------------------------------------------------------------
\* an all_files that leaves the directories out
WidgetFileMap_FilesOnly ==
    LET found(i) == UNION {step[2] : step \in Walk(i)}
        keys == UNION {found(i) : i \in Roots}
    IN  [p \in keys |-> [i \in Roots |-> IF p \in found(i) THEN AbsPath(i, p) ELSE NoPath]]

\* the all_files of _scan_directories: every directory below the root and
\* every file, relative path -> slot per directory
WidgetFileMap ==
    LET found(i) == UNION {step[2] : step \in Walk(i)}
                    \cup {step[1] : step \in {w \in Walk(i) : w[1] # <<>>}}
        keys == UNION {found(i) : i \in Roots}
    IN  [p \in keys |-> [i \in Roots |-> IF p \in found(i) THEN AbsPath(i, p) ELSE NoPath]]

\* Path(rel_path_str).parts
RECURSIVE Parts(_)
Parts(str) ==
    LET at == {k \in 1..Len(str) : str[k] = Slash}
    IN  IF at = {} THEN <<str>>
        ELSE <<SubSeq(str, 1, SetMin(at) - 1)>> \o Parts(SubSeq(str, SetMin(at) + 1, Len(str)))

ResultItem(text, result) == [text |-> text, result |-> result]

\* _add_item_to_trees: the row of rel_path_str, added to the map
AddItemToTrees(map, rel_path_str, paths) ==
    LET parts == Parts(rel_path_str)
        parent_path == PathStr(Parent(parts))
        parent == IF Len(parts) > 1 /\ parent_path \in DOMAIN map THEN parent_path ELSE NoPath
        is_dir == \E i \in 1..Len(paths) : paths[i] # NoPath /\ IsDir(paths[i])
        result_items ==
            [i \in 1..(Len(paths) - 1) |->
                IF paths[i] = NoPath /\ paths[i + 1] = NoPath THEN ResultItem("", NoResult)
                ELSE IF paths[i] = NoPath \/ paths[i + 1] = NoPath
                     THEN ResultItem(DIFFERENT, NoResult)
                ELSE ResultItem("", NoResult)]
    IN  map @@ (rel_path_str :>
                  [paths |-> paths, parent |-> parent, is_dir |-> is_dir,
                   result_items |-> result_items])

RECURSIVE AddItems(_, _, _, _)
AddItems(map, names, k, file_map) ==
    IF k > Len(names) THEN map
    ELSE LET p == CHOOSE q \in DOMAIN file_map : PathStr(q) = names[k]
         IN  AddItems(AddItemToTrees(map, names[k], file_map[p]), names, k + 1, file_map)

\* the keys of all_files in descending order
ScanOrder_Descending(all) ==
    LET names == Sorted({PathStr(p) : p \in DOMAIN all})
    IN  [k \in 1..Len(names) |-> names[Len(names) + 1 - k]]

\* sorted(all_files.keys())
ScanOrder(all) == Sorted({PathStr(p) : p \in DOMAIN all})

\* _scan_directories
ScanDirectories ==
    LET all == WidgetFileMap
    IN  AddItems(<<>>, ScanOrder(all), 1, all)

\* the items _scan_directories creates in a tree, in creation order: every
\* call of _add_item_to_trees creates one item per tree, under the parent
\* item it found in items_map (at top level if it found none)
TreeItems ==
    LET all == WidgetFileMap
        names == ScanOrder(all)
    IN  [k \in 1..Len(names) |->
            LET row == AddItems(<<>>, SubSeq(names, 1, k), 1, all)[names[k]]
            IN  [name |-> names[k], parent |-> row.parent, paths |-> row.paths]]

\* self.trees after the scan: the item of tree i holds paths[i]
ScanTrees ==
    LET items == TreeItems
    IN  [i \in 1..nroots |->
            [k \in 1..Len(items) |->
                [name |-> items[k].name, parent |-> items[k].parent,
                 data |-> items[k].paths[i]]]]

\* self.result_trees after the scan: the item of result tree i shows the
\* text of result item i
ScanResultTrees ==
    LET items == TreeItems
    IN  [i \in 1..(nroots - 1) |->
            [k \in 1..Len(items) |->
                [name |-> items[k].name, parent |-> items[k].parent,
                 data |-> IF (items[k].paths[i] = NoPath) # (items[k].paths[i + 1] = NoPath)
                          THEN DIFFERENT ELSE ""]]]

\* the iterations of _start_comparison, for one row, that reach a
\* comparator: the result item exists, both paths are set, exist and are
\* not directories
WidgetComparedPairs(row, gone) ==
    LET pairs == ConsecutivePairs(Len(row.paths))
    IN  {k \in 1..Len(pairs) :
            LET path1 == row.paths[pairs[k][1]]
                path2 == row.paths[pairs[k][2]]
            IN  /\ k \in DOMAIN row.result_items
                /\ path1 # NoPath /\ path2 # NoPath
                /\ Exists(path1, gone) /\ Exists(path2, gone)
                /\ ~IsDir(path1) /\ ~IsDir(path2)}

\* the symbol _start_comparison shows for a result
ResultText(result) ==
    IF result.status = IDENTICAL THEN IDENTICAL
    ELSE IF result.status \in {SIMILAR, SIMILAR_EXIF} THEN SIMILAR
    ELSE DIFFERENT

\* _start_comparison, the row of one relative path
CompareRow(row, gone) ==
    LET pairs == ConsecutivePairs(Len(row.paths))
    IN  [row EXCEPT !.result_items =
            [k \in DOMAIN row.result_items |->
                IF k \in WidgetComparedPairs(row, gone)
                THEN LET path1 == row.paths[pairs[k][1]]
                         path2 == row.paths[pairs[k][2]]
                         file_type == Detect(detector, path1[2][Len(path1[2])])
                         result == CompareFiles(FileAt(path1, gone), FileAt(path2, gone),
                                                file_type)
                     IN  ResultItem(ResultText(result), result)
                ELSE row.result_items[k]]]

\* the constructor: _scan_directories
WidgetScan ==
    /\ mode = "widget" /\ gpc = "new"
    /\ items_map' = ScanDirectories
    /\ trees' = ScanTrees
    /\ result_trees' = ScanResultTrees
    /\ gpc' = "scanned"
    /\ UNCHANGED <<mode, histVars, detVars, cmpVars, envVars, workerVars, fileVars, pending,
                   stop_requested, calls>>

\* the comparator calls of _start_comparison for the row of one path
RowCalls(rel_path, row, gone) ==
    LET pairs == ConsecutivePairs(Len(row.paths))
        name(path) == path[2][Len(path[2])]
    IN  {Call("widget", rel_path, pairs[k][1], pairs[k][2],
              Detect(detector, name(row.paths[pairs[k][1]]))) :
            k \in WidgetComparedPairs(row, gone)}

\* _compare_all, and _start_comparison up to its loop (lines 496-525):
\* paths_to_compare is list(items_map.keys()), in insertion order
WidgetCompareAll ==
    /\ mode = "widget" /\ gpc = "scanned"
    /\ DOMAIN items_map # {}
    /\ pending' = Sorted(DOMAIN items_map)
    /\ stop_requested' = FALSE
    /\ gpc' = "comparing"
    /\ UNCHANGED <<mode, histVars, detVars, cmpVars, envVars, workerVars, items_map, trees, result_trees,
                   fileVars, calls>>

\* _start_comparison, lines 527-598: one iteration of the loop over
\* paths_to_compare; nothing in the loop reads a stop flag
WidgetCompareRow ==
    /\ mode = "widget" /\ gpc = "comparing" /\ pending # <<>>
    /\ LET rel_path == Head(pending)
           row == items_map[rel_path]
       IN  \E gone \in {NoPath} \cup {p \in SlotsOf(row.paths) : ~IsDir(p)} :
              /\ items_map' = [items_map EXCEPT ![rel_path] = CompareRow(row, gone)]
              /\ calls' = calls \cup RowCalls(rel_path, row, gone)
    /\ pending' = Tail(pending)
    /\ UNCHANGED <<mode, histVars, detVars, cmpVars, envVars, workerVars, gpc, stop_requested, trees,
                   result_trees, fileVars>>

\* _start_comparison, lines 600-604: the loop is over, the progress widgets
\* and the stop button are hidden
WidgetComparisonDone ==
    /\ mode = "widget" /\ gpc = "comparing" /\ pending = <<>>
    /\ gpc' = "scanned"
    /\ UNCHANGED <<mode, histVars, detVars, cmpVars, envVars, workerVars, items_map, pending,
                   stop_requested, trees, result_trees, fileVars, calls>>

\* the user presses the stop button while _start_comparison runs; the loop
\* runs on the GUI thread, so the click waits in the event queue
WidgetStopRequest ==
    /\ mode = "widget" /\ gpc = "comparing" /\ ~stop_requested
    /\ stop_requested' = TRUE
    /\ UNCHANGED <<mode, histVars, detVars, cmpVars, envVars, workerVars, gpc, items_map, pending,
                   trees, result_trees, fileVars, calls>>

\* _stop_comparison, run by the event loop once _start_comparison returned:
\* self.worker is None in this widget, so nothing is stopped
WidgetStopComparison ==
    /\ mode = "widget" /\ gpc = "scanned" /\ stop_requested
    /\ stop_requested' = FALSE
    /\ UNCHANGED <<mode, histVars, detVars, cmpVars, envVars, workerVars, gpc, items_map, pending,
                   trees, result_trees, fileVars, calls>>

\* ------------------------------------------------------------------------
\* FileComparisonWidget
\* ------------------------------------------------------------------------
\* _compare_files, lines 131-155: one file type, from the first path
FileCompare ==
    /\ mode = "file" /\ fpc = "new" /\ fwidget = "FileComparisonWidget"
    /\ LET file_type == Detect(detector, fpaths[1].name)
           pairs == ConsecutivePairs(Len(fpaths))
       IN  /\ fresults' = [k \in 1..Len(pairs) |->
                              CompareFiles(fpaths[pairs[k][1]].file, fpaths[pairs[k][2]].file,
                                           file_type)]
           /\ calls' = calls \cup {Call("file", fpaths[pairs[k][1]].name, pairs[k][1],
                                         pairs[k][2], file_type) : k \in 1..Len(pairs)}
    /\ fpc' = "done"
    /\ UNCHANGED <<mode, histVars, detVars, cmpVars, envVars, workerVars, widgetVars, fpaths, fwidget>>

\* ------------------------------------------------------------------------
\* ComparisonWidget
\* ------------------------------------------------------------------------
\* _start_file_comparison, lines 139-156: one file type, from the first
\* path; every consecutive pair is handed to the comparator
StartFileComparison ==
    /\ mode = "file" /\ fpc = "new" /\ fwidget = "ComparisonWidget"
    /\ LET file_type == Detect(detector, fpaths[1].name)
           pairs == ConsecutivePairs(Len(fpaths))
       IN  /\ fresults' = [k \in 1..Len(pairs) |->
                              CompareFiles(fpaths[pairs[k][1]].file, fpaths[pairs[k][2]].file,
                                           file_type)]
           /\ calls' = calls \cup {Call("file", fpaths[pairs[k][1]].name, pairs[k][1],
                                         pairs[k][2], file_type) : k \in 1..Len(pairs)}
    /\ fpc' = "done"
    /\ UNCHANGED <<mode, histVars, detVars, cmpVars, envVars, workerVars, widgetVars, fpaths, fwidget>>

\* ------------------------------------------------------------------------
\* One detector call
\* ------------------------------------------------------------------------
\* Path(file_path).suffix is taken from the final component of the path
DetectPath(det, path_str) ==
    LET parts == Parts(path_str)
    IN  Detect(det, parts[Len(parts)])

DetectCall ==
    /\ mode = "detect" /\ category = None
    /\ category' = DetectPath(detector, dpath)
    /\ UNCHANGED <<mode, histVars, cmpVars, envVars, workerVars, widgetVars, fileVars, dpath, given,
                   updated, updates, calls>>

\* self.text_extensions = extensions
update_text_extensions(det, extensions) == [det EXCEPT !.text_extensions = extensions]

\* self.image_extensions = extensions
update_image_extensions(det, extensions) == [det EXCEPT !.image_extensions = extensions]

\* update_text_extensions(T) on the detector constructed without arguments
UpdateTextExtensions ==
    /\ mode = "detect" /\ "text" \notin updates
    /\ updated' = update_text_extensions(updated, given[1])
    /\ updates' = updates \cup {"text"}
    /\ UNCHANGED <<mode, histVars, cmpVars, envVars, workerVars, widgetVars, fileVars, dpath, category,
                   given, calls>>

\* update_image_extensions(I) on the detector constructed without arguments
UpdateImageExtensions ==
    /\ mode = "detect" /\ "image" \notin updates
    /\ updated' = update_image_extensions(updated, given[2])
    /\ updates' = updates \cup {"image"}
    /\ UNCHANGED <<mode, histVars, cmpVars, envVars, workerVars, widgetVars, fileVars, dpath, category,
                   given, calls>>

\* ------------------------------------------------------------------------
\* Settings: the comparison history
\* ------------------------------------------------------------------------
HistoryLimit == 50

\* history_item = {"paths": paths, "is_directory": is_directory}
HistoryItem(paths, is_directory) == [paths |-> paths, is_directory |-> is_directory]

\* json.dumps(history): a list of objects; a bool becomes true or false
JsonDumps(list) ==
    [k \in 1..Len(list) |->
        <<"{", list[k].paths, IF list[k].is_directory THEN "true" ELSE "false", "}">>]

\* json.loads(value)
JsonLoads(value) ==
    [k \in 1..Len(value) |-> HistoryItem(value[k][2], value[k][3] = "true")]

get_comparison_history(value) == JsonLoads(value)

\* add_to_history without the removal of the items equal to the new one
add_to_history_NoDedupe(value, item) ==
    LET inserted == <<item>> \o get_comparison_history(value)
    IN  JsonDumps(SubSeq(inserted, 1, Min(HistoryLimit, Len(inserted))))

\* add_to_history: the stored value after the call
add_to_history(value, item) ==
    LET keep(h) == h # item
        inserted == <<item>> \o SelectSeq(get_comparison_history(value), keep)
    IN  JsonDumps(SubSeq(inserted, 1, Min(HistoryLimit, Len(inserted))))

\* the n-th distinct comparison: "d" against "d" followed by one more
\* character, directories when n is even
Comparison(n) == HistoryItem(<<NameD, NameD \o <<n>>>>, n % 2 = 0)

\* MainWindow._start_comparison, lines 101-106, for a comparison requested
\* from the home tab with paths not compared before
StartComparison ==
    /\ mode = "history" /\ started < MaxItems
    /\ history' = add_to_history(history, Comparison(started + 1))
    /\ started' = started + 1
    /\ UNCHANGED <<mode, cmpVars, envVars, workerVars, widgetVars, fileVars, detVars, reruns,
                   calls>>

\* HistoryDialog._rerun_comparison and then MainWindow._start_comparison:
\* the item of a row of the stored history (the second or the last) is
\* started again
RerunComparison ==
    /\ mode = "history" /\ reruns < MaxReruns
    /\ LET stored == get_comparison_history(history)
       IN  \E current_row \in {2, Len(stored)} \cap (1..Len(stored)) :
              history' = add_to_history(history,
                            HistoryItem(stored[current_row].paths,
                                        stored[current_row].is_directory))
    /\ reruns' = reruns + 1
    /\ UNCHANGED <<mode, cmpVars, envVars, workerVars, widgetVars, fileVars, detVars, started,
                   calls>>

\* ------------------------------------------------------------------------
\* One comparator call
\* ------------------------------------------------------------------------
CompareCall ==
    /\ mode = "cmp" /\ outcome = NoResult
    /\ outcome' = Compare(kind, file1, file2, threshold)
    /\ UNCHANGED <<mode, histVars, detVars, kind, file1, file2, threshold, envVars, workerVars, widgetVars,
                   fileVars, calls>>

\* ------------------------------------------------------------------------
\* Specification
\* ------------------------------------------------------------------------
ExtC == <<99>>
ExtPng == <<112, 110, 103>>

\* the extension sets read from the settings: the defaults, or exchanged
DetectorConfigs == {<<{}, {}>>, <<{ExtPng}, {ExtC}>>}

FileNames == {NameD, NameDC, NameB}
FileModeFiles == {OkFile(<<LetterA>>), OkFile(<<LetterA, SP>>), MissingFile, DirFile}

IdleCmp ==
    /\ kind = BINARY /\ file1 = MissingFile /\ file2 = MissingFile
    /\ threshold = 0 /\ outcome = NoResult

IdleEnv ==
    /\ nroots = 2
    /\ fs = [i \in 1..2 |-> EmptyTree]
    /\ rootOk = [i \in 1..2 |-> TRUE]
    /\ detector = FileTypeDetectorInit({}, {})

IdleWorker ==
    /\ wpc = "off" /\ should_stop = FALSE /\ all_files = <<>> /\ idx = 0 /\ emitted = <<>>

IdleWidget ==
    /\ gpc = "off" /\ items_map = <<>> /\ pending = <<>> /\ stop_requested = FALSE
    /\ trees = <<>> /\ result_trees = <<>>

IdleFile == fpaths = <<>> /\ fresults = <<>> /\ fpc = "off" /\ fwidget = None

IdleDetect ==
    /\ dpath = <<>> /\ category = None
    /\ given = <<{}, {}>> /\ updated = FileTypeDetectorInit({}, {}) /\ updates = {}

\* the paths classified: "d", "d.c", "D.C", "d.C", "b.png", "B.PNG", "d.x",
\* ".c", "d.", "d.c/d" and "d/b.png"
DetectPaths ==
    {<<100>>, <<100, 46, 99>>, <<68, 46, 67>>, <<100, 46, 67>>,
     <<98, 46, 112, 110, 103>>, <<66, 46, 80, 78, 71>>, <<100, 46, 120>>,
     <<46, 99>>, <<100, 46>>, <<100, 46, 99, 47, 100>>,
     <<100, 47, 98, 46, 112, 110, 103>>}

\* the extension sets given to the detector: those of DetectorConfigs, a
\* text set holding the upper-case "C", a text set holding an empty line,
\* and an empty text set beside an image set holding "c"
DetectConfigs ==
    DetectorConfigs \cup {<<{<<67>>}, {ExtPng}>>, <<{<<>>, ExtC}, {ExtPng}>>, <<{}, {ExtC}>>}

InitEnv ==
    /\ nroots \in {2, 3}
    /\ rootOk \in [1..nroots -> BOOLEAN]
    /\ fs \in [1..nroots -> Trees]
    /\ \A i \in 1..nroots : ~rootOk[i] => fs[i] = EmptyTree
    /\ \E c \in DetectorConfigs : detector = FileTypeDetectorInit(c[1], c[2])

InitCmp ==
    /\ mode = "cmp"
    /\ kind \in {TEXT, IMAGE, BINARY}
    /\ file1 \in FilesOf(kind)
    /\ file2 \in FilesOf(kind)
    /\ threshold \in Thresholds
    /\ outcome = NoResult
    /\ IdleEnv /\ IdleWorker /\ IdleWidget /\ IdleFile /\ IdleDetect

InitWorker ==
    /\ mode = "worker"
    /\ InitEnv
    /\ wpc = "collect" /\ should_stop = FALSE /\ all_files = <<>> /\ idx = 0 /\ emitted = <<>>
    /\ IdleCmp /\ IdleWidget /\ IdleFile /\ IdleDetect

InitWidget ==
    /\ mode = "widget"
    /\ InitEnv
    /\ gpc = "new" /\ items_map = <<>> /\ pending = <<>> /\ stop_requested = FALSE
    /\ trees = <<>> /\ result_trees = <<>>
    /\ IdleCmp /\ IdleWorker /\ IdleFile /\ IdleDetect

InitFile ==
    /\ mode = "file"
    /\ nroots \in {2, 3}
    /\ fs = [i \in 1..nroots |-> EmptyTree]
    /\ rootOk = [i \in 1..nroots |-> TRUE]
    /\ \E c \in DetectorConfigs : detector = FileTypeDetectorInit(c[1], c[2])
    /\ fpaths \in [1..nroots -> [name : FileNames, file : FileModeFiles]]
    /\ fresults = <<>> /\ fpc = "new"
    /\ fwidget \in {"FileComparisonWidget", "ComparisonWidget"}
    /\ IdleCmp /\ IdleWorker /\ IdleWidget /\ IdleDetect

InitDetect ==
    /\ mode = "detect"
    /\ dpath \in DetectPaths
    /\ category = None
    /\ nroots = 2
    /\ fs = [i \in 1..2 |-> EmptyTree]
    /\ rootOk = [i \in 1..2 |-> TRUE]
    /\ given \in DetectConfigs
    /\ detector = FileTypeDetectorInit(given[1], given[2])
    /\ updated = FileTypeDetectorInit({}, {})
    /\ updates = {}
    /\ IdleCmp /\ IdleWorker /\ IdleWidget /\ IdleFile

IdleHistory == history = <<>> /\ started = 0 /\ reruns = 0

\* QSettings without a stored history: get_comparison_history reads "[]"
InitHistory ==
    /\ mode = "history"
    /\ history = JsonDumps(<<>>) /\ started = 0 /\ reruns = 0
    /\ IdleEnv /\ IdleCmp /\ IdleWorker /\ IdleWidget /\ IdleFile /\ IdleDetect

Init ==
    /\ calls = {}
    /\ \/ IdleHistory /\ (InitCmp \/ InitWorker \/ InitWidget \/ InitFile \/ InitDetect)
       \/ InitHistory

Next ==
    \/ CompareCall
    \/ WorkerCollect
    \/ WorkerNext
    \/ WorkerCompare
    \/ WorkerAfterLoop
    \/ WorkerFinally
    \/ WorkerStop
    \/ WidgetScan
    \/ WidgetCompareAll
    \/ WidgetCompareRow
    \/ WidgetComparisonDone
    \/ WidgetStopRequest
    \/ WidgetStopComparison
    \/ FileCompare
    \/ StartFileComparison
    \/ DetectCall
    \/ UpdateTextExtensions
    \/ UpdateImageExtensions
    \/ StartComparison
    \/ RerunComparison

Spec == Init /\ [][Next]_vars

\* ------------------------------------------------------------------------
\* DirectoryComparisonWorker.run as a thread: every step of run() is taken
\* once it is enabled (the thread is scheduled and each comparator call
\* returns); stop() and exceptions may or may not happen. The runs start
\* on two listable directories that both hold the file "d.c".
\* ------------------------------------------------------------------------
InitRun ==
    /\ calls = {}
    /\ InitWorker
    /\ IdleHistory
    /\ nroots = 2
    /\ \A i \in 1..2 : rootOk[i] /\ fs[i][<<NameDC>>] = "file"

RunStep ==
    \/ WorkerCollect
    \/ WorkerNext
    \/ WorkerCompare
    \/ WorkerAfterLoop
    \/ WorkerFinally

RunNext ==
    \/ RunStep
    \/ WorkerStop
    \/ WorkerRaise

LiveSpec == InitRun /\ [][RunNext]_vars /\ WF_vars(RunStep)

\* ========================================================================
\* Properties
\* ========================================================================
Called == mode = "cmp" /\ outcome # NoResult

\* the relative path an entry name stands for
PathOfName(name) == CHOOSE p \in RelPaths : PathStr(p) = name

Collected == mode = "worker" /\ wpc # "collect"
Scanned == mode = "widget" /\ gpc \in {"scanned", "comparing"}

\* the entries whose comparison the worker has completed
ComparedItems == {k \in 1..Len(all_files) : all_files[k].results # <<>>}

\* C1: comparing a readable file with itself gives Identical with
\* similarity 100, for each of the three comparators and every threshold.
C1_SelfCompareIdentical ==
    (Called /\ file1.st = "ok" /\ file2 = file1)
        => (outcome.status = IDENTICAL /\ RatEq(outcome.similarity, 100))

C1_Witness ==
    /\ Called /\ kind = IMAGE /\ threshold = 100
    /\ file1 = OkFile(EncodeImage(0, 1, 1, <<255>>)) /\ file2 = file1
    /\ outcome.status = IDENTICAL

\* the stored bytes differ only in the style of the line endings
OnlyLineEndings(d1, d2) ==
    d1 # d2 /\ ReplaceCR(ReplaceCRLF(d1)) = ReplaceCR(ReplaceCRLF(d2))

IsLineEnd(b) == b \in {CR, LF}

\* the stored bytes differ only in trailing whitespace on lines
OnlyTrailingWhitespace(d1, d2) ==
    /\ d1 # d2
    /\ SelectSeq(d1, IsLineEnd) = SelectSeq(d2, IsLineEnd)
    /\ normalize_text(d1) = normalize_text(d2)

\* C2: two text files that differ only in line-ending style or only in
\* trailing whitespace compare as Similar at exactly 100 with the
\* whitespace/newline-only details, never as Identical.
C2_LineEndingsSimilar ==
    (/\ Called /\ kind = TEXT /\ file1.st = "ok" /\ file2.st = "ok"
     /\ \/ OnlyLineEndings(file1.data, file2.data)
        \/ OnlyTrailingWhitespace(file1.data, file2.data))
        => outcome = ComparisonResult(SIMILAR, Rat(100, 1), "Whitespace/newline differences only")

\* an entry has one slot per root, filled exactly under the roots where the
\* relative path is of one of the given kinds, and at least one is filled
SlotsMatch(name, paths, kinds) ==
    LET p == PathOfName(name)
        filled == {i \in 1..Len(paths) : paths[i] # NoPath}
    IN  /\ Len(paths) = nroots
        /\ \A i \in Roots : paths[i] = IF fs[i][p] \in kinds THEN AbsPath(i, p) ELSE NoPath
        /\ Cardinality(filled) = Cardinality({i \in Roots : fs[i][p] \in kinds})
        /\ Cardinality(filled) >= 1

EntryNames == {all_files[k].name : k \in 1..Len(all_files)}

NamesOfKind(kinds) ==
    {PathStr(p) : p \in {q \in RelPaths : \E i \in Roots : rootOk[i] /\ fs[i][q] \in kinds}}

Uncomparable(paths, i) ==
    \/ paths[i] = NoPath
    \/ paths[i + 1] = NoPath
    \/ IsDir(paths[i])
    \/ IsDir(paths[i + 1])

\* C5: in directory mode a consecutive pair with an absent or directory
\* side gets no comparator call and its outcome stays None.
C5_NoCallForAbsentOrDirectory ==
    /\ mode = "worker" =>
          \A k \in ComparedItems : \A i \in 1..(nroots - 1) :
              Uncomparable(all_files[k].paths, i) =>
                  /\ all_files[k].results[i] = NoResult
                  /\ ~\E c \in calls : c.name = all_files[k].name /\ c.left = i
    /\ Scanned =>
          \A n \in DOMAIN items_map : \A i \in 1..(nroots - 1) :
              Uncomparable(items_map[n].paths, i) =>
                  /\ items_map[n].result_items[i].result = NoResult
                  /\ ~\E c \in calls : c.name = n /\ c.left = i

C5_Witness ==
    /\ mode = "worker" /\ wpc = "done" /\ nroots = 3
    /\ \E k \in ComparedItems :
          /\ all_files[k].paths[1] # NoPath
          /\ all_files[k].paths[2] = NoPath
          /\ all_files[k].paths[3] # NoPath
          /\ all_files[k].results = <<NoResult, NoResult>>
    /\ \E k \in ComparedItems : all_files[k].results[1] # NoResult

\* C6: N paths give N-1 outcome slots, slot i comparing path i with path
\* i+1; no call compares path 0 with path 2, in file and directory mode.
C6_ConsecutivePairsOnly ==
    /\ \A c \in calls : c.right = c.left + 1
    /\ mode = "worker" => \A k \in ComparedItems : Len(all_files[k].results) = nroots - 1
    /\ Scanned => \A n \in DOMAIN items_map : DOMAIN items_map[n].result_items = 1..(nroots - 1)
    /\ (mode = "file" /\ fpc = "done") =>
          /\ Len(fresults) = nroots - 1
          /\ \A i \in 1..(nroots - 1) :
                fresults[i] = CompareFiles(fpaths[i].file, fpaths[i + 1].file,
                                           Detect(detector, fpaths[1].name))

C6_Witness ==
    /\ mode = "file" /\ fpc = "done" /\ nroots = 3
    /\ Cardinality(calls) = 2
    /\ fpaths[1].file # fpaths[3].file
    /\ fresults[1].status = IDENTICAL /\ fresults[2].status # IDENTICAL

Undecodable(d) == ~Identifiable(d) \/ ~Loadable(d)

RecoveredLocally == outcome.status = DIFFERENT /\ RatEq(outcome.similarity, 0) /\ outcome.details # ""

\* no exception leaves a comparator during a directory run, and a run that
\* was not stopped compares every entry
RunNeverAborted ==
    mode = "worker" =>
        /\ \A e \in 1..Len(emitted) : \A i \in 1..Len(emitted[e].results) :
              emitted[e].results[i].status # "raised"
        /\ (wpc = "done" /\ ~should_stop) => ComparedItems = 1..Len(all_files)

\* C7 as stated: a pair with a missing, unreadable or (image) undecodable
\* file gives Different, 0, with details, and no exception.
C7_FailureIsDifferent ==
    /\ (/\ Called
        /\ \/ file1.st # "ok"
           \/ file2.st # "ok"
           \/ kind = IMAGE /\ (Undecodable(file1.data) \/ Undecodable(file2.data)))
          => RecoveredLocally
    /\ Called => outcome.status # "raised"
    /\ RunNeverAborted

\* C7, amended: a pair with a missing or unreadable file, or with an
\* undecodable image whose bytes differ from the other file's, gives
\* Different, 0, with details; no comparator raises, and a directory run
\* that is not stopped compares every entry.
C7_FailureIsDifferentUnlessSameBytes ==
    /\ (/\ Called
        /\ \/ file1.st # "ok"
           \/ file2.st # "ok"
           \/ /\ kind = IMAGE
              /\ file1.data # file2.data
              /\ (Undecodable(file1.data) \/ Undecodable(file2.data)))
          => RecoveredLocally
    /\ Called => outcome.status # "raised"
    /\ RunNeverAborted

C7_Witness ==
    /\ Called /\ kind = IMAGE
    /\ file1 = OkFile(<<0>>) /\ file2 = OkFile(EncodeImage(0, 1, 1, <<255>>))
    /\ outcome = ComparisonResult(DIFFERENT, Rat(0, 1), "Error: cannot identify image file")

\* C8: when a root cannot be enumerated the directory run produces no
\* aligned entry and issues no comparison.
C8_UnreadableRootFailsRun ==
    (\E i \in Roots : ~rootOk[i]) =>
        /\ mode = "worker" => (all_files = <<>> /\ calls = {})
        /\ mode = "widget" => (DOMAIN items_map = {} /\ calls = {})

\* C9: BinaryComparator with exactly one empty input gives Different with
\* similarity 0 for every threshold.
C9_OneEmptyIsDifferent ==
    (/\ Called /\ kind = BINARY /\ file1.st = "ok" /\ file2.st = "ok"
     /\ (Len(file1.data) = 0) # (Len(file2.data) = 0))
        => (outcome.status = DIFFERENT /\ RatEq(outcome.similarity, 0))

C9_Witness ==
    /\ Called /\ kind = BINARY /\ threshold = 0
    /\ file1 = OkFile(<<>>) /\ file2 = OkFile(<<LetterA>>)
    /\ outcome.status = DIFFERENT

\* C10: for two non-empty, different inputs the binary similarity is
\* matching * 100 / max(len_a, len_b), matching counting the equal bytes
\* at offsets below min(len_a, len_b); 01 02 03 against 01 02 04 at
\* threshold 50 is Similar with similarity 200/3, shown as 66.7.
C10_BinarySimilarityFormula ==
    /\ (/\ Called /\ kind = BINARY /\ file1.st = "ok" /\ file2.st = "ok"
        /\ file1.data # <<>> /\ file2.data # <<>> /\ file1.data # file2.data)
          => LET a == file1.data
                 b == file2.data
                 matching == Cardinality({k \in 1..Min(Len(a), Len(b)) : a[k] = b[k]})
             IN  outcome.similarity.num * Max(Len(a), Len(b))
                     = matching * 100 * outcome.similarity.den
    /\ (/\ Called /\ kind = BINARY /\ threshold = 50
        /\ file1 = OkFile(Bin123) /\ file2 = OkFile(Bin124))
          => /\ outcome.status = SIMILAR
             /\ 3 * outcome.similarity.num = 200 * outcome.similarity.den
             /\ Tenths(outcome.similarity) = 667

C10_Witness ==
    /\ Called /\ kind = BINARY /\ threshold = 50
    /\ file1 = OkFile(Bin123) /\ file2 = OkFile(Bin124)
    /\ outcome.status = SIMILAR

\* r <= s for two rationals
RatLeq(r, s) == r.num * s.den <= s.num * r.den

\* pairs of contents of lengths n1 and n2, the first all of one byte and the
\* second over a two-byte alphabet: every number of matching positions from
\* 0 to Min(n1, n2) occurs among them
PairsOfLengths(n1, n2) ==
    {<<[k \in 1..n1 |-> LetterA], b>> : b \in [1..n2 -> {LetterA, SP}]}

\* C11: with both lengths fixed and non-zero, BinaryComparator's similarity
\* does not decrease as the number of matching positional bytes grows: any
\* other pair of the same lengths with at least as many matching positions
\* scores at least as high as the pair just compared, and any with at most
\* as many scores at most as high.
C11_BinaryMonotone ==
    (/\ Called /\ kind = BINARY /\ file1.st = "ok" /\ file2.st = "ok"
     /\ file1.data # <<>> /\ file2.data # <<>>)
        => LET n1 == Len(file1.data)
               n2 == Len(file2.data)
               m  == MatchingBytes(file1.data, file2.data, Min(n1, n2))
           IN  \A p \in PairsOfLengths(n1, n2) :
                  LET mp == MatchingBytes(p[1], p[2], Min(n1, n2))
                      sp == BinaryCompare(OkFile(p[1]), OkFile(p[2]), threshold).similarity
                  IN  /\ mp >= m => RatLeq(outcome.similarity, sp)
                      /\ mp <= m => RatLeq(sp, outcome.similarity)

C11_Witness ==
    /\ Called /\ kind = BINARY
    /\ file1 = OkFile(<<LetterA, SP>>) /\ file2 = OkFile(<<LetterA, LetterA>>)
    /\ RatEq(outcome.similarity, 50)
    /\ RatEq(BinaryCompare(OkFile(<<SP, SP>>), OkFile(<<LetterA, LetterA>>), threshold).similarity, 0)
    /\ RatEq(BinaryCompare(OkFile(<<LetterA, LetterA>>), OkFile(<<LetterA, LetterA>>), threshold).similarity, 100)

\* two decodable images of equal dimensions whose raw bytes differ and whose
\* pixel arrays are equal once the second is converted to the first's mode
SamePixelsOtherBytes(d1, d2) ==
    /\ d1 # d2
    /\ Identifiable(d1) /\ Identifiable(d2)
    /\ Loadable(d1) /\ Loadable(d2)
    /\ ImgSize(d1) = ImgSize(d2)
    /\ Pixels(d1) = ConvertPixels(Pixels(d2), ImgMode(d2), ImgMode(d1))

\* C12: two images of equal dimensions with different raw bytes and equal
\* decoded pixel arrays compare as SIMILAR_EXIF with similarity 100 at
\* every threshold, never as Identical.
C12_SamePixelsIsMetadataOnly ==
    (/\ Called /\ kind = IMAGE /\ file1.st = "ok" /\ file2.st = "ok"
     /\ SamePixelsOtherBytes(file1.data, file2.data))
        => (outcome.status = SIMILAR_EXIF /\ RatEq(outcome.similarity, 100))

C12_Witness ==
    /\ Called /\ kind = IMAGE /\ threshold = 100
    /\ file1 = OkFile(EncodeImage(0, 1, 1, <<255>>))
    /\ file2 = OkFile(EncodeImage(1, 1, 3, <<255, 255, 255>>))
    /\ outcome.status = SIMILAR_EXIF

\* every comparator result held anywhere in the state
AllResults ==
    {outcome}
    \cup UNION {{all_files[k].results[i] : i \in 1..Len(all_files[k].results)} :
                   k \in 1..Len(all_files)}
    \cup UNION {{items_map[n].result_items[i].result : i \in DOMAIN items_map[n].result_items} :
                   n \in DOMAIN items_map}
    \cup {fresults[i] : i \in 1..Len(fresults)}

\* C13: every outcome with status Identical, from any comparator and on
\* any return path, has similarity exactly 100.
C13_IdenticalIsHundred ==
    \A r \in AllResults : r.status = IDENTICAL => RatEq(r.similarity, 100)

C13_Witness ==
    /\ Called /\ kind = TEXT
    /\ file1 = OkFile(HelloLF) /\ file2 = OkFile(HelloCRLF)
    /\ outcome.status = IDENTICAL /\ RatEq(outcome.similarity, 100)

Detected == mode = "detect" /\ category # None

\* the extension of the final component of a path, dot stripped, case kept
RawExtension(path_str) ==
    LET parts == Parts(path_str)
    IN  LStripDots(Suffix(parts[Len(parts)]))

\* two strings equal up to the case of their ASCII letters
FoldCase(c) == IF c >= 65 /\ c <= 90 THEN c + 32 ELSE c

EqualIgnoringCase(s, t) ==
    /\ Len(s) = Len(t)
    /\ \A k \in 1..Len(s) : FoldCase(s[k]) = FoldCase(t[k])

\* C14: detect depends only on the final extension, compared without case
\* and without the dot: paths whose extensions are equal ignoring case get
\* the same category, and a path whose lower-cased extension is in neither
\* set (a path without extension included) is Binary.
C14_DetectByExtensionOnly ==
    Detected =>
        /\ category \in {TEXT, IMAGE, BINARY}
        /\ \A other \in DetectPaths :
              EqualIgnoringCase(RawExtension(other), RawExtension(dpath))
                  => DetectPath(detector, other) = category
        /\ LET ext == [k \in 1..Len(RawExtension(dpath)) |-> FoldCase(RawExtension(dpath)[k])]
           IN  (ext \notin detector.text_extensions /\ ext \notin detector.image_extensions)
                  => category = BINARY

C14_Witness ==
    /\ Detected /\ dpath = <<68, 46, 67>>
    /\ <<99>> \in detector.text_extensions
    /\ category = TEXT
    /\ DetectPath(detector, <<100, 46, 120>>) = BINARY
    /\ DetectPath(detector, <<100>>) = BINARY

\* C15: once stop() was called the worker starts no entry at the next loop
\* head, so at most the entry in flight is still reported; the comparison
\* in flight always completes and is reported; the signals already emitted
\* and the outcomes already stored are never changed or retracted.
C15_StopBetweenEntries ==
    [][mode = "worker" =>
         /\ (should_stop /\ wpc = "loop") => (wpc' = "after" /\ emitted' = emitted)
         /\ (wpc = "compare" /\ wpc' # "compare") =>
               /\ idx' = idx + 1
               /\ Len(emitted') = Len(emitted) + 1
               /\ emitted'[Len(emitted')].sig = "comparison_complete"
               /\ emitted'[Len(emitted')].name = all_files[idx + 1].name
               /\ idx + 1 \in {k \in 1..Len(all_files') : all_files'[k].results # <<>>}
         /\ Len(emitted') >= Len(emitted)
         /\ SubSeq(emitted', 1, Len(emitted)) = emitted
         /\ \A k \in ComparedItems : all_files'[k] = all_files[k]]_vars

\* stopped while the first of several entries was in flight: that entry is
\* reported, no later one is
C15_Witness ==
    /\ mode = "worker" /\ wpc = "done" /\ should_stop
    /\ Len(all_files) >= 2
    /\ ComparedItems = {1}
    /\ \E e \in 1..Len(emitted) :
          emitted[e].sig = "comparison_complete" /\ emitted[e].name = all_files[1].name
    /\ ~\E e \in 1..Len(emitted) :
          emitted[e].sig = "file_found" /\ emitted[e].name = all_files[2].name

\* C16: in the directory comparison of ParallelComparisonWidget, once a
\* stop request was made during the run no comparator is invoked for any
\* later entry.
C16_WidgetStopCancels ==
    [][(mode = "widget" /\ gpc = "comparing" /\ stop_requested) => calls' \subseteq calls]_vars

IsEntrySignal(e) == e.sig \in {"file_found", "comparison_complete"}

\* the file_found and comparison_complete signals emitted so far, in order
EntrySignals == SelectSeq(emitted, IsEntrySignal)

\* C17: the worker reports the entries in strictly ascending order of the
\* relative path string; for each entry file_found and then
\* comparison_complete, before anything of the next entry; no entry is
\* reported twice and the signals of two entries never interleave.
C17_SortedOrderNoInterleaving ==
    Collected =>
        /\ \A k \in 1..(Len(all_files) - 1) : StrLess(all_files[k].name, all_files[k + 1].name)
        /\ \A j \in 1..Len(EntrySignals) :
              /\ EntrySignals[j].sig = IF j % 2 = 1 THEN "file_found" ELSE "comparison_complete"
              /\ EntrySignals[j].name = all_files[(j + 1) \div 2].name
        /\ Len(EntrySignals) <= 2 * Len(all_files)

C17_Witness ==
    /\ mode = "worker" /\ wpc = "done" /\ ~should_stop
    /\ Len(all_files) = 3
    /\ Len(EntrySignals) = 6
    /\ EntrySignals[5].name = PathStr(<<NameD, NameB>>)

\* C18: every comparator call for a pair (i, i+1) uses the comparator of
\* the category of the pair's own left path, in file mode and in directory
\* mode (in file mode the name of a call is the name of its left file, in
\* directory mode the relative path shared by both sides).
C18_RoutedByLeftPath ==
    \A c \in calls : c.cmp = DetectPath(detector, c.name)

\* C19: in file mode a consecutive pair with a side that does not exist or
\* is a directory gets no comparator call and its outcome is not computed.
C19_FileModeSkipsMissingOrDirectory ==
    (mode = "file" /\ fpc = "done") =>
        \A i \in 1..(Len(fpaths) - 1) :
            (fpaths[i].file.st # "ok" \/ fpaths[i + 1].file.st # "ok") =>
                /\ fresults[i] = NoResult
                /\ ~\E c \in calls : c.left = i

\* the details strings of the scoring step of the three comparators
ScoringDetails ==
    {"Content mostly similar", "Content differs significantly",
     "Pixels mostly similar", "Pixels differ significantly",
     "Binary data mostly similar", "Binary data differs"}

\* the similarity the scoring step computes for the two files
ScoredSimilarity ==
    IF kind = TEXT
    THEN RatioPercent(normalize_text(ReadText(file1).text), normalize_text(ReadText(file2).text))
    ELSE IF kind = IMAGE
    THEN PixelSimilarity(Pixels(file1.data),
                         ConvertPixels(Pixels(file2.data), ImgMode(file2.data), ImgMode(file1.data)))
    ELSE Rat(100 * Cardinality({k \in 1..Min(Len(file1.data), Len(file2.data)) :
                                   file1.data[k] = file2.data[k]}),
             Max(Len(file1.data), Len(file2.data)))

\* C20: an outcome of the scoring step is Similar exactly when the
\* similarity is at least the threshold (equality included), Different
\* otherwise, and carries the computed similarity unchanged.
C20_ThresholdDecidesStatus ==
    (Called /\ outcome.details \in ScoringDetails) =>
        /\ outcome.status \in {SIMILAR, DIFFERENT}
        /\ outcome.status = SIMILAR
              <=> outcome.similarity.num >= threshold * outcome.similarity.den
        /\ outcome.similarity.num * ScoredSimilarity.den
              = ScoredSimilarity.num * outcome.similarity.den

\* similarity equal to the threshold
C20_Witness ==
    /\ Called /\ kind = BINARY /\ threshold = 50
    /\ file1 = OkFile(<<LetterA, SP>>) /\ file2 = OkFile(<<LetterA, LetterA>>)
    /\ outcome = ComparisonResult(SIMILAR, Rat(100, 2), "Binary data mostly similar")

\* both files were opened and decoded; the decoded strings differ and their
\* normalized forms are equal
NormalizedEqualOnly(f1, f2) ==
    /\ ReadText(f1).exc = None /\ ReadText(f1).decoded
    /\ ReadText(f2).exc = None /\ ReadText(f2).decoded
    /\ ReadText(f1).text # ReadText(f2).text
    /\ normalize_text(ReadText(f1).text) = normalize_text(ReadText(f2).text)

\* C21: when the decoded strings are unequal and their normalized forms are
\* equal, TextComparator.compare returns Similar with similarity 100 and the
\* whitespace/newline-only details at every threshold; TextComparator never
\* returns SIMILAR_EXIF.
C21_NormalizedEqualIsSimilarHundred ==
    (Called /\ kind = TEXT) =>
        /\ outcome.status # SIMILAR_EXIF
        /\ NormalizedEqualOnly(file1, file2) =>
              /\ outcome.status = SIMILAR
              /\ RatEq(outcome.similarity, 100)
              /\ outcome.details = "Whitespace/newline differences only"

\* "a " against "a" at threshold 100
C21_Witness ==
    /\ Called /\ kind = TEXT /\ threshold = 100
    /\ file1 = OkFile(<<LetterA, SP>>) /\ file2 = OkFile(<<LetterA>>)
    /\ NormalizedEqualOnly(file1, file2)
    /\ outcome.status = SIMILAR
    /\ outcome.details = "Whitespace/newline differences only"

\* the relative paths of the items of one tree, in creation order
ItemNames(tree) == [k \in 1..Len(tree) |-> tree[k].name]

\* a sequence that lists every element of S exactly once
ListsOnce(seq, S) ==
    /\ Len(seq) = Cardinality(S)
    /\ {seq[k] : k \in 1..Len(seq)} = S

\* C22: the relative paths of the entries built by _scan_directories are
\* exactly the non-root directories and the files found under the roots,
\* with one items_map key and one row in every tree per relative path.
C22_ScanEntriesAreDirsAndFiles ==
    Scanned =>
        /\ DOMAIN items_map = NamesOfKind({"file", "dir"})
        /\ DOMAIN trees = 1..nroots
        /\ DOMAIN result_trees = 1..(nroots - 1)
        /\ \A i \in 1..nroots : ListsOnce(ItemNames(trees[i]), DOMAIN items_map)
        /\ \A i \in 1..(nroots - 1) : ListsOnce(ItemNames(result_trees[i]), DOMAIN items_map)

\* a directory in one root, a file of the same name in another, a file
\* inside the directory
C22_Witness ==
    /\ Scanned /\ nroots = 3
    /\ fs[1][<<NameD>>] = "dir" /\ fs[1][<<NameD, NameB>>] = "file"
    /\ fs[2][<<NameD>>] = "file" /\ fs[3][<<NameDC>>] = "file"
    /\ DOMAIN items_map = {PathStr(<<NameD>>), PathStr(<<NameDC>>), PathStr(<<NameD, NameB>>)}
    /\ Len(trees[2]) = 3 /\ Len(result_trees[2]) = 3

\* two files with different bytes that PIL identifies as images of
\* different pixel dimensions
DifferentSizes(f1, f2) ==
    /\ f1.st = "ok" /\ f2.st = "ok"
    /\ f1.data # f2.data
    /\ Identifiable(f1.data) /\ Identifiable(f2.data)
    /\ ImgSize(f1.data) # ImgSize(f2.data)

\* C23: ImageComparator.compare on two byte-different images of different
\* pixel dimensions returns Different with similarity 0 at every threshold,
\* 0 included, and returns at the size check: no pixel is loaded, converted
\* or compared.
C23_DifferentDimensionsIsDifferent ==
    (Called /\ kind = IMAGE /\ DifferentSizes(file1, file2)) =>
        /\ outcome.status = DIFFERENT
        /\ RatEq(outcome.similarity, 0)
        /\ outcome.details = "Different dimensions"

\* threshold 0, and a truncated file on one side: its pixels are never read
C23_Witness ==
    /\ Called /\ kind = IMAGE /\ threshold = 0
    /\ file1 = OkFile(<<Magic, 0, 1, 1>>)
    /\ file2 = OkFile(EncodeImage(0, 2, 1, <<0, 0>>))
    /\ ~Loadable(file1.data)
    /\ outcome = ComparisonResult(DIFFERENT, Rat(0, 1), "Different dimensions")

IsProgress(e) == e.sig = "progress"

\* the progress updates emitted so far, in order
ProgressUpdates == SelectSeq(emitted, IsProgress)

\* C24: during run a progress update (idx, total) is emitted before the
\* entry at sorted index idx is compared; total is the same in every update
\* and is the number of aligned entries; the current values start at 0,
\* never decrease and never exceed total; the alignment of all roots is
\* complete before the first entry is compared.
C24_ProgressBeforeEachEntry ==
    mode = "worker" =>
        /\ \A j \in 1..Len(ProgressUpdates) :
              /\ ProgressUpdates[j].total = Len(all_files)
              /\ ProgressUpdates[j].current \in 0..Len(all_files)
              /\ j = 1 => ProgressUpdates[j].current = 0
              /\ j > 1 => ProgressUpdates[j - 1].current <= ProgressUpdates[j].current
        /\ wpc = "compare" =>
              \E e \in 1..Len(emitted) :
                  /\ emitted[e] = Event("progress", idx, Len(all_files), all_files[idx + 1].name, <<>>)
        /\ \A e \in 1..Len(emitted) :
              emitted[e].sig = "comparison_complete" =>
                  \E b \in 1..(e - 1) :
                      /\ emitted[b].sig = "progress"
                      /\ emitted[b].current = emitted[e].current
                      /\ emitted[b].name = emitted[e].name
                      /\ all_files[emitted[e].current + 1].name = emitted[e].name
        /\ (wpc = "collect") => (calls = {} /\ emitted = <<>>)
        /\ calls # {} => (Collected /\ Len(ProgressUpdates) >= 2)

\* three entries compared: the updates are 0, 0, 1, 2, 3 of 3
C24_Witness ==
    /\ mode = "worker" /\ wpc = "done" /\ ~should_stop
    /\ Len(all_files) = 3
    /\ [j \in 1..Len(ProgressUpdates) |-> ProgressUpdates[j].current] = <<0, 0, 1, 2, 3>>
    /\ \A j \in 1..Len(ProgressUpdates) : ProgressUpdates[j].total = 3

IsFinished(e) == e.sig = "finished"

\* C25: every execution of run eventually emits finished, whether it
\* completes, is cancelled by stop() at any point, or an exception leaves
\* the try block; finished is the last signal of the run; once stop() was
\* seen at the loop head no further entry is started.
C25_FinishedEventuallyEmitted ==
    /\ (mode = "worker") ~> (wpc = "done" /\ Len(SelectSeq(emitted, IsFinished)) = 1)
    /\ [](wpc = "done" => (emitted # <<>> /\ emitted[Len(emitted)].sig = "finished"))
    /\ [][(should_stop /\ wpc = "loop") => wpc' \in {"after", "finally"}]_vars

\* cancelled while the first of several entries was compared
C25_Witness ==
    /\ mode = "worker" /\ wpc = "done" /\ should_stop
    /\ Len(all_files) >= 2 /\ idx = 1
    /\ emitted[Len(emitted)].sig = "finished"

\* an exception left the try block during the comparison of the first entry
C25_WitnessException ==
    /\ mode = "worker" /\ wpc = "done" /\ ~should_stop
    /\ Len(all_files) >= 2 /\ idx = 0
    /\ \E e \in 1..Len(emitted) : emitted[e].sig = "file_found"
    /\ emitted[Len(emitted)].sig = "finished"

\* C26: a run that was cancelled before every entry was compared does not
\* report completion: the progress update (total, total) is emitted only
\* when all entries have been compared.
C26_CancelledRunReportsNoCompletion ==
    mode = "worker" =>
        \A e \in 1..Len(emitted) :
            (emitted[e].sig = "progress" /\ emitted[e].current = emitted[e].total)
                => ComparedItems = 1..Len(all_files)

\* C27: a FileTypeDetector constructed with the sets T and I classifies
\* with exactly those sets, empty sets included: it classifies every path
\* as the detector constructed with the defaults and then updated with
\* update_text_extensions(T) and update_image_extensions(I) does, so with T
\* empty no path is Text.
C27_ExplicitSetsUsedExactly ==
    (mode = "detect" /\ updates = {"text", "image"}) =>
        /\ detector.text_extensions = given[1]
        /\ detector.image_extensions = given[2]
        /\ \A p \in DetectPaths : DetectPath(detector, p) = DetectPath(updated, p)
        /\ given[1] = {} => \A p \in DetectPaths : DetectPath(detector, p) # TEXT

\* C28: at the default binary threshold of 100 BinaryComparator.compare
\* never returns Similar: the outcome is Identical, exactly when both files
\* were read and their bytes are equal, or Different; a scored similarity
\* of 100 is not reached by unequal contents.
C28_DefaultBinaryNeverSimilar ==
    /\ (Called /\ kind = BINARY /\ threshold = DefaultBinaryThreshold) =>
          /\ outcome.status \in {IDENTICAL, DIFFERENT}
          /\ outcome.status = IDENTICAL
                <=> (file1.st = "ok" /\ file2.st = "ok" /\ file1.data = file2.data)
          /\ outcome.details \in ScoringDetails =>
                outcome.similarity.num < 100 * outcome.similarity.den
    /\ \A c \in calls : c.cmp = BINARY /\ c.by = "worker" =>
          \A k \in 1..Len(all_files) :
              all_files[k].name = c.name =>
                  \A i \in 1..Len(all_files[k].results) :
                      all_files[k].results[i].status # SIMILAR

\* all bytes of the shorter file match and the other is one byte longer
C28_Witness ==
    /\ Called /\ kind = BINARY /\ threshold = DefaultBinaryThreshold
    /\ file1 = OkFile(<<LetterA>>) /\ file2 = OkFile(<<LetterA, SP>>)
    /\ outcome = ComparisonResult(DIFFERENT, Rat(100, 2), "Binary data differs")

\* the comparison history as get_comparison_history returns it
StoredHistory == get_comparison_history(history)

\* C29: after any sequence of add_to_history calls the stored history holds
\* no two equal items and at most 50 items; every call leaves the item
\* added first and the other items behind it in their previous relative
\* order, cut at 50; re-adding an item already stored moves it to the
\* front and leaves the length unchanged.
C29_HistoryDistinctCappedRecentFirst ==
    /\ [](mode = "history" =>
            LET stored == StoredHistory
            IN  /\ Len(stored) <= HistoryLimit
                /\ Cardinality({stored[i] : i \in 1..Len(stored)}) = Len(stored))
    /\ [][(mode = "history" /\ (started' # started \/ reruns' # reruns)) =>
            \A old \in {StoredHistory} : \A new \in {get_comparison_history(history')} :
                /\ Len(new) >= 1
                /\ \A item \in {new[1]} : \A wasStored \in {\E k \in 1..Len(old) : old[k] = item} :
                      LET isOther(h) == h # item
                      IN  \A others \in {SelectSeq(old, isOther)} :
                          \A rest \in {SubSeq(new, 2, Len(new))} :
                            /\ started' # started => (item = Comparison(started') /\ ~wasStored)
                            /\ reruns' # reruns => wasStored
                            /\ Len(rest) = Min(Len(others), HistoryLimit - 1)
                            /\ rest = SubSeq(others, 1, Len(rest))
                            /\ wasStored => Len(new) = Len(old)]_vars

\* the history is full, items were dropped at the end, and an older item
\* was rerun and stands first
C29_Witness ==
    /\ mode = "history"
    /\ started = HistoryLimit + 2 /\ reruns = 1
    /\ Len(StoredHistory) = HistoryLimit
    /\ StoredHistory[1] # Comparison(started)
    /\ StoredHistory[2] = Comparison(started)


\* the relative path of the directory an entry lies in, NoPath at top level
ParentEntry(name) ==
    IF Len(Parts(name)) > 1 THEN PathStr(Parent(Parts(name))) ELSE NoPath

\* the items of a tree stand one per entry, each under the item of its
\* parent directory, which was created before it
OneItemPerEntryInPlace(items) ==
    /\ Len(items) = Cardinality(DOMAIN items_map)
    /\ {items[k].name : k \in 1..Len(items)} = DOMAIN items_map
    /\ \A k \in 1..Len(items) :
          /\ items[k].parent = ParentEntry(items[k].name)
          /\ items[k].parent # NoPath =>
                \E j \in 1..(k - 1) : items[j].name = items[k].parent

\* C30: _scan_directories adds the entries in sorted order, so every entry
\* lying in a directory finds its parent's row in items_map and is never
\* attached at top level; after the scan every directory tree and every
\* result tree holds exactly one item per entry, under the item of its
\* parent, with a placeholder item where the root lacks the entry.
C30_EntriesFollowParents ==
    (mode = "widget" /\ gpc # "new") =>
        /\ \A n \in DOMAIN items_map : items_map[n].parent = ParentEntry(n)
        /\ DOMAIN trees = 1..nroots
        /\ DOMAIN result_trees = 1..(nroots - 1)
        /\ \A i \in 1..nroots :
              /\ OneItemPerEntryInPlace(trees[i])
              /\ \A k \in 1..Len(trees[i]) :
                    trees[i][k].data = items_map[trees[i][k].name].paths[i]
        /\ \A i \in 1..(nroots - 1) : OneItemPerEntryInPlace(result_trees[i])

\* three roots were scanned; a nested file exists in one root only, and the
\* other trees hold placeholders for it and for its directory
C30_Witness ==
    /\ mode = "widget" /\ gpc # "new" /\ nroots = 3
    /\ \E n \in DOMAIN items_map :
          /\ items_map[n].parent # NoPath
          /\ items_map[n].paths[1] # NoPath
          /\ \E k \in 1..Len(trees[2]) : \E j \in 1..(k - 1) :
                /\ trees[2][k].name = n /\ trees[2][k].data = NoPath
                /\ trees[2][j].name = items_map[n].parent /\ trees[2][j].data = NoPath

====
